---- MODULE Spec2Model ----
(***************************************************************************)
(* Model of goja_go's declaration scanner (main.go): run, Data.scan,       *)
(* Data.formatFuncDecl, Data.formatType, Data.formatFuncFields,            *)
(* Data.formatFuncResults and Data.addImport.                              *)
(*                                                                         *)
(* A Go string is a sequence of one-character strings, so that the text    *)
(* operations of package strings (HasPrefix, TrimPrefix, Index,            *)
(* ReplaceAll, TrimSpace) and sort.Strings act on the text itself.         *)
(***************************************************************************)
EXTENDS Integers, Sequences, FiniteSets, TLC

VARIABLES
    pc,        \* position of run(): start, loop, scan, objects, write, done, failed, panicked; unit for direct calls
    pkgName,   \* flag -n, the bridged module's import path
    data,      \* the Data value: InputPkg, ImportPaths, Imports, Funcs
    module,    \* what parser.ParseDir returned: a set of packages (read-only)
    astFiles,  \* packages the loop of run() has not yet ranged over
    files,     \* files of the current package scan() has not yet ranged over
    file,      \* the file scan() is ranging over
    objects,   \* objects of that file's scope scan() has not yet ranged over
    faulted,   \* a fault (error return or panic) happened while scanning
    rendered,  \* the model handed to tmpl.Execute, or NotRendered
    written,   \* os.WriteFile was called
    last,      \* the latest direct call of a Data method and what it returned
    calls      \* number of direct calls made

vars == <<pc, pkgName, data, module, astFiles, files, file, objects, faulted, rendered, written, last, calls>>

\* ------------------------------------------------------------------ text

\* Characters of the model's texts in byte order (sort.Strings and < on
\* strings compare bytes).
Chars ==
    <<" ", "\"", "(", ")", "*", ",", ".", "/", "0", "1", "2", "3", "4", "5", "6", "7", "8",
      "9", "A", "B", "C", "D", "E", "F", "G", "H", "I", "J", "K", "L", "M", "N", "O", "P",
      "Q", "R", "S", "T", "U", "V", "W", "X", "Y", "Z", "[", "]", "_", "a", "b", "c", "d",
      "e", "f", "g", "h", "i", "j", "k", "l", "m", "n", "o", "p", "q", "r", "s", "t", "u",
      "v", "w", "x", "y", "z">>

Ord(c) == CHOOSE i \in 1..Len(Chars) : Chars[i] = c

UpperChars ==
    <<"A", "B", "C", "D", "E", "F", "G", "H", "I", "J", "K", "L", "M", "N", "O", "P", "Q",
      "R", "S", "T", "U", "V", "W", "X", "Y", "Z">>

LowerChars ==
    <<"a", "b", "c", "d", "e", "f", "g", "h", "i", "j", "k", "l", "m", "n", "o", "p", "q",
      "r", "s", "t", "u", "v", "w", "x", "y", "z">>

\* unicode.IsUpper and unicode.ToLower on the model's characters
IsUpper(c) == \E i \in 1..Len(UpperChars) : UpperChars[i] = c

ToLower(c) == IF IsUpper(c) THEN LowerChars[CHOOSE i \in 1..Len(UpperChars) : UpperChars[i] = c] ELSE c

\* s < t, bytewise
RECURSIVE Less(_, _)
Less(s, t) ==
    IF t = <<>> THEN FALSE
    ELSE IF s = <<>> THEN TRUE
    ELSE IF Head(s) = Head(t) THEN Less(Tail(s), Tail(t))
    ELSE Ord(Head(s)) < Ord(Head(t))

HasPrefix(s, p) == Len(p) <= Len(s) /\ SubSeq(s, 1, Len(p)) = p

HasSuffix(s, p) == Len(p) <= Len(s) /\ SubSeq(s, Len(s) - Len(p) + 1, Len(s)) = p

TrimPrefix(s, p) == IF HasPrefix(s, p) THEN SubSeq(s, Len(p) + 1, Len(s)) ELSE s

\* strings.Index: 0-based position of the first occurrence, -1 if none
Index(s, sub) ==
    LET at == {i \in 0..(Len(s) - Len(sub)) : SubSeq(s, i + 1, i + Len(sub)) = sub}
    IN IF at = {} THEN -1 ELSE CHOOSE i \in at : \A j \in at : i <= j

Contains(s, sub) == Index(s, sub) # -1

TrimSpace(s) ==
    LET keep == {i \in 1..Len(s) : s[i] # " "}
    IN IF keep = {} THEN <<>>
       ELSE SubSeq(s, CHOOSE i \in keep : \A j \in keep : i <= j,
                      CHOOSE i \in keep : \A j \in keep : j <= i)

\* strings.ReplaceAll for a non-empty old: leftmost, non-overlapping
RECURSIVE ReplaceAll(_, _, _)
ReplaceAll(s, old, new) ==
    LET p == Index(s, old)
    IN IF p = -1 THEN s
       ELSE SubSeq(s, 1, p) \o new \o ReplaceAll(SubSeq(s, p + Len(old) + 1, Len(s)), old, new)

\* ast.IsExported / (*ast.Ident).IsExported: the first rune is upper case
IsExported(name) == name # <<>> /\ IsUpper(name[1])

lower1st(s) == <<ToLower(s[1])>> \o Tail(s)

SliceContains(list, x) == \E i \in 1..Len(list) : list[i] = x

\* sort.Strings
RECURSIVE InsertString(_, _)
InsertString(sorted, x) ==
    IF sorted = <<>> THEN <<x>>
    ELSE IF Less(x, Head(sorted)) THEN <<x>> \o sorted
    ELSE <<Head(sorted)>> \o InsertString(Tail(sorted), x)

RECURSIVE SortStrings(_)
SortStrings(list) ==
    IF list = <<>> THEN <<>> ELSE InsertString(SortStrings(SubSeq(list, 1, Len(list) - 1)), list[Len(list)])

\* sort.Slice(data.Funcs, Name less)
RECURSIVE InsertFunc(_, _)
InsertFunc(sorted, f) ==
    IF sorted = <<>> THEN <<f>>
    ELSE IF Less(f.Name, Head(sorted).Name) THEN <<f>> \o sorted
    ELSE <<Head(sorted)>> \o InsertFunc(Tail(sorted), f)

RECURSIVE SortFuncs(_)
SortFuncs(list) ==
    IF list = <<>> THEN <<>> ELSE InsertFunc(SortFuncs(SubSeq(list, 1, Len(list) - 1)), list[Len(list)])

\* ------------------------------------------------------------------ go/ast

\* ast.Expr nodes that formatType switches on
NilExpr == [kind |-> "nil"]
Ident(name) == [kind |-> "Ident", Name |-> name]
SelectorExpr(x, sel) == [kind |-> "SelectorExpr", X |-> x, Sel |-> sel]
StarExpr(x) == [kind |-> "StarExpr", X |-> x]
ArrayType(len, elt) == [kind |-> "ArrayType", Len |-> len, Elt |-> elt]
Ellipsis(elt) == [kind |-> "Ellipsis", Elt |-> elt]
FuncType(params, results) == [kind |-> "FuncType", Params |-> params, Results |-> results]
MapType(key, value) == [kind |-> "MapType", Key |-> key, Value |-> value]
ChanType(value) == [kind |-> "ChanType", Value |-> value]
BasicLit(value) == [kind |-> "BasicLit", Value |-> value]
\* any other expression node (the default case of the switch)
OtherExpr == [kind |-> "StructType"]

\* *ast.Field and *ast.FieldList; NilFields is the nil *ast.FieldList
Field(names, type) == [Names |-> names, Type |-> type]
FieldList(list) == [isNil |-> FALSE, List |-> list]
NilFields == [isNil |-> TRUE, List |-> <<>>]

\* *ast.FuncDecl
FuncDecl(recv, name, params, results) ==
    [Recv |-> recv, Name |-> name, Type |-> [Params |-> params, Results |-> results]]

\* the zero Func{}
ZeroFunc ==
    [Name |-> <<>>, JsName |-> <<>>, Receiver |-> <<>>, Signature |-> <<>>,
     Params |-> <<>>, ParamNames |-> <<>>, Results |-> <<>>]

\* ------------------------------------------------------------------ Data.addImport

GojaPath == <<"g", "i", "t", "h", "u", "b", ".", "c", "o", "m", "/", "d", "o", "p", "2", "5", "1", "/", "g", "o", "j", "a">>

InternalPrefix == <<"i", "n", "t", "e", "r", "n", "a", "l", "/">>

\* the first known path (in table order) that ends in "/"+imprt, else imprt
ResolveImport(importPaths, imprt) ==
    LET hits == {i \in 1..Len(importPaths) : HasSuffix(importPaths[i], <<"/">> \o imprt)}
    IN IF hits = {} THEN imprt
       ELSE importPaths[CHOOSE i \in hits : \A j \in hits : i <= j]

\* a resolver that registers the qualifier verbatim
AddImportVerbatim(d, imprt) ==
    LET q == TrimPrefix(TrimPrefix(imprt, <<"*">>), <<"[", "]">>)
    IN IF SliceContains(d.Imports, q) \/ HasPrefix(q, InternalPrefix)
       THEN d
       ELSE [d EXCEPT !.Imports = Append(@, q)]

AddImport(d, imprt) ==
    LET q == TrimPrefix(TrimPrefix(imprt, <<"*">>), <<"[", "]">>)
        p == ResolveImport(d.ImportPaths, q)
    IN IF SliceContains(d.Imports, p) \/ HasPrefix(p, InternalPrefix)
       THEN d
       ELSE [d EXCEPT !.Imports = Append(@, p)]

\* ------------------------------------------------------------------ Data.formatType

\* What a formatter returns: the text, the Data it left behind (formatType
\* registers imports as it goes) and whether it panicked.
Ret(s, d) == [s |-> s, d |-> d, panic |-> FALSE]
Panicked(d) == [s |-> <<>>, d |-> d, panic |-> TRUE]

\* sequencing of two formatter calls: a panic in the first (formatType's
\* ChanType and default cases) unwinds past the rest
Then(r, Rest(_)) == IF r.panic THEN r ELSE Rest(r)

RECURSIVE FormatType(_, _)
RECURSIVE FormatTypeSwitch(_, _)
RECURSIVE FormatFuncFields(_, _, _)
RECURSIVE FormatFieldsFrom(_, _, _, _, _)
RECURSIVE FormatFuncResults(_, _)

\* the inner loop of formatFuncFields: the names of one field
RECURSIVE FormatNames(_, _)
FormatNames(names, j) ==
    IF j > Len(names) THEN <<>>
    ELSE names[j] \o (IF j # Len(names) THEN <<",">> ELSE <<>>) \o <<" ">> \o FormatNames(names, j + 1)

\* the outer loop of formatFuncFields from field i on, s being the text so far
FormatFieldsFrom(d, list, i, inclType, s) ==
    IF i > Len(list) THEN Ret(s, d)
    ELSE Then(IF inclType THEN FormatType(d, list[i].Type) ELSE Ret(<<>>, d),
              LAMBDA t : FormatFieldsFrom(t.d, list, i + 1, inclType,
                            s \o FormatNames(list[i].Names, 1) \o t.s
                              \o (IF i # Len(list) THEN <<",", " ">> ELSE <<>>)))

FormatFuncFields(d, fields, inclType) ==
    Then(FormatFieldsFrom(d, fields.List, 1, inclType, <<>>),
         LAMBDA r : Ret(TrimSpace(r.s), r.d))

\* the text formatFuncResults builds from the formatted fields f of n fields
ResultsText(n, f) ==
    LET g == IF Contains(f, <<",">>) THEN <<"(">> \o f \o <<")">> ELSE f
        s == IF n > 1 THEN <<"(">> \o g \o <<")">> ELSE g
    IN ReplaceAll(ReplaceAll(s, <<"(", "(">>, <<"(">>), <<")", ")">>, <<")">>)

FormatFuncResults(d, fields) ==
    IF fields.isNil THEN Ret(<<>>, d)
    ELSE Then(FormatFuncFields(d, fields, TRUE),
              LAMBDA r : Ret(ResultsText(Len(fields.List), r.s), r.d))

\* the switch of formatType (the closure fn)
FormatTypeSwitch(d, typ) ==
    CASE typ.kind = "nil" -> Ret(<<>>, d)
      [] typ.kind = "Ident" ->
            IF ~Contains(typ.Name, <<".">>) /\ IsExported(typ.Name)
            THEN Ret(d.InputPkg \o <<".">> \o typ.Name, d)
            ELSE Ret(typ.Name, d)
      [] typ.kind = "SelectorExpr" ->
            Then(FormatType(d, typ.X), LAMBDA x : Ret(x.s \o <<".">> \o typ.Sel, x.d))
      [] typ.kind = "StarExpr" ->
            Then(FormatType(d, typ.X), LAMBDA x : Ret(<<"*">> \o x.s, x.d))
      [] typ.kind = "ArrayType" ->
            Then(FormatType(d, typ.Len), LAMBDA l :
            Then(FormatType(l.d, typ.Elt), LAMBDA e :
            Ret(<<"[">> \o l.s \o <<"]">> \o e.s, e.d)))
      [] typ.kind = "Ellipsis" -> FormatType(d, typ.Elt)
      [] typ.kind = "FuncType" ->
            Then(FormatFuncFields(d, typ.Params, TRUE), LAMBDA p :
            Then(FormatFuncResults(p.d, typ.Results), LAMBDA r :
            Ret(<<"f", "u", "n", "c", "(">> \o p.s \o <<")">> \o r.s, r.d)))
      [] typ.kind = "MapType" ->
            Then(FormatType(d, typ.Key), LAMBDA k :
            Then(FormatType(k.d, typ.Value), LAMBDA v :
            Ret(<<"m", "a", "p", "[">> \o k.s \o <<"]">> \o v.s, v.d)))
      [] typ.kind = "ChanType" -> Panicked(d)
      [] typ.kind = "BasicLit" -> Ret(typ.Value, d)
      [] OTHER -> Panicked(d)

\* the tail of formatType: the text before the first "." goes to addImport
RegisterQualifier(result) ==
    LET p == Index(result.s, <<".">>)
    IN IF p # -1 THEN Ret(result.s, AddImport(result.d, SubSeq(result.s, 1, p))) ELSE result

FormatType(d, typ) == Then(FormatTypeSwitch(d, typ), LAMBDA result : RegisterQualifier(result))

\* ------------------------------------------------------------------ Data.formatFuncDecl

\* What formatFuncDecl returns: the Func, whether the error is non-nil,
\* whether it panicked instead, and the Data it left behind.
DeclRet(f, err, panic, d) == [f |-> f, err |-> err, panic |-> panic, d |-> d]

\* the same inside formatFuncDecl: the panic unwinds through it
ThenDecl(r, Rest(_)) == IF r.panic THEN DeclRet(ZeroFunc, FALSE, TRUE, r.d) ELSE Rest(r)

\* f.Receiver: "(name type) " for a method, "" for a function
FormatReceiver(d, recv) ==
    IF recv.isNil THEN Ret(<<>>, d)
    ELSE Then(FormatType(d, recv.List[1].Type),
              LAMBDA t : Ret(<<"(">> \o recv.List[1].Names[1] \o <<" ">> \o t.s \o <<")", " ">>, t.d))

FormatFuncDecl(d, decl) ==
    IF ~decl.Recv.isNil /\ Len(decl.Recv.List) # 1 THEN DeclRet(ZeroFunc, TRUE, FALSE, d)
    ELSE IF ~decl.Recv.isNil /\ Len(decl.Recv.List[1].Names) = 0 THEN DeclRet(ZeroFunc, FALSE, FALSE, d)
    ELSE IF ~decl.Recv.isNil /\ Len(decl.Recv.List[1].Names) # 1 THEN DeclRet(ZeroFunc, TRUE, FALSE, d)
    ELSE ThenDecl(FormatReceiver(d, decl.Recv), LAMBDA receiver :
         ThenDecl(FormatFuncFields(receiver.d, decl.Type.Params, TRUE), LAMBDA params :
         ThenDecl(FormatFuncFields(params.d, decl.Type.Params, FALSE), LAMBDA names :
         ThenDecl(FormatFuncResults(names.d, decl.Type.Results), LAMBDA results :
         DeclRet([Name |-> decl.Name, JsName |-> lower1st(decl.Name),
                  Receiver |-> receiver.s, Signature |-> <<>>,
                  Params |-> <<"(">> \o params.s \o <<")">>,
                  ParamNames |-> <<"(">> \o names.s \o <<")">>,
                  Results |-> results.s],
                 FALSE, FALSE, results.d)))))

\* ------------------------------------------------------------------ Data.scan

\* ast.ObjKind values of the objects in a file's scope
Fun == "Fun"
Typ == "Typ"

\* *ast.Object of a file scope: Scope.Objects maps Name to it
Object(kind, name, decl) == [Kind |-> kind, Name |-> name, Decl |-> decl]

\* *ast.File as scan reads it: the Path.Value of each import spec (a quoted
\* string literal) and the objects of the file scope, listed in source order
\* (Scope.Objects is a map: scan ranges over it in any order)
File(imports, objs) == [Imports |-> imports, Objects |-> objs]

Quote(path) == <<"\"">> \o path \o <<"\"">>

\* the loop over file.Imports
RECURSIVE FoldImports(_, _)
FoldImports(d, imports) ==
    IF imports = <<>> THEN d
    ELSE LET value == Head(imports)
             name == SubSeq(value, 2, Len(value) - 1)
         IN IF value = <<>> THEN FoldImports(d, Tail(imports))
            ELSE FoldImports([d EXCEPT !.ImportPaths = Append(@, name)], Tail(imports))

\* a lookup that never finds the name
ContainesFuncNever(d, name) == FALSE

ContainesFunc(d, name) == \E i \in 1..Len(d.Funcs) : d.Funcs[i].Name = name

\* the body of the loop over file.Scope.Objects for one object: the Data it
\* leaves, whether scan returns an error, whether formatType panicked
ScanObject(d, object, kind) ==
    IF object.Kind = kind /\ IsExported(object.Name) /\ ~ContainesFunc(d, object.Name)
    THEN LET r == FormatFuncDecl(d, object.Decl)
         IN IF r.panic THEN [d |-> r.d, err |-> FALSE, panic |-> TRUE]
            ELSE IF r.err THEN [d |-> r.d, err |-> TRUE, panic |-> FALSE]
            ELSE IF r.f.Name = <<>> THEN [d |-> r.d, err |-> FALSE, panic |-> FALSE]
            ELSE [d |-> [r.d EXCEPT !.Funcs = Append(@, r.f)], err |-> FALSE, panic |-> FALSE]
    ELSE [d |-> d, err |-> FALSE, panic |-> FALSE]

\* the two sorts that end scan
ScanSort(d) == [d EXCEPT !.Imports = SortStrings(@), !.Funcs = SortFuncs(@)]

\* a scan that carries on after a fault
AfterObjectIgnoringFault(r) == "objects"

\* where run() stands once one object is done: scan goes on, scan and run
\* return the error, or the panic ends the process
AfterObject(r) == IF r.panic THEN "panicked" ELSE IF r.err THEN "failed" ELSE "objects"

\* ------------------------------------------------------------------ inputs

MaxFiles == 2   \* files per parsed package
MaxPkgs == 2    \* packages parser.ParseDir returns for the directory

tInt == Ident(<<"i", "n", "t">>)
tError == Ident(<<"e", "r", "r", "o", "r">>)
NoFields == FieldList(<<>>)

\* func Do()   and   func Use(x bar.T)   in a file importing foo/bar
FileA ==
    File(<<Quote(<<"f", "o", "o", "/", "b", "a", "r">>)>>,
         <<Object(Fun, <<"D", "o">>, FuncDecl(NilFields, <<"D", "o">>, NoFields, NilFields)),
          Object(Fun, <<"U", "s", "e">>, FuncDecl(NilFields, <<"U", "s", "e">>,
                 FieldList(<<Field(<<<<"x">>>>, SelectorExpr(Ident(<<"b", "a", "r">>), <<"T">>))>>), NilFields))>>)

\* func Do() error   and   func Api(y bar.U)   in a file importing baz/bar
FileB ==
    File(<<Quote(<<"b", "a", "z", "/", "b", "a", "r">>)>>,
         <<Object(Fun, <<"D", "o">>, FuncDecl(NilFields, <<"D", "o">>, NoFields, FieldList(<<Field(<<>>, tError)>>))),
          Object(Fun, <<"A", "p", "i">>, FuncDecl(NilFields, <<"A", "p", "i">>,
                 FieldList(<<Field(<<<<"y">>>>, SelectorExpr(Ident(<<"b", "a", "r">>), <<"U">>))>>), NilFields))>>)

\* type Thing, func NewThing() *Thing, func helper(), and an interface
\* method Close() error (a receiver field without names)
FileC ==
    File(<<>>,
         <<Object(Typ, <<"T", "h", "i", "n", "g">>, NilExpr),
          Object(Fun, <<"N", "e", "w", "T", "h", "i", "n", "g">>, FuncDecl(NilFields, <<"N", "e", "w", "T", "h", "i", "n", "g">>, NoFields,
                 FieldList(<<Field(<<>>, StarExpr(Ident(<<"T", "h", "i", "n", "g">>)))>>))),
          Object(Fun, <<"h", "e", "l", "p", "e", "r">>, FuncDecl(NilFields, <<"h", "e", "l", "p", "e", "r">>, NoFields, NilFields)),
          Object(Fun, <<"C", "l", "o", "s", "e">>, FuncDecl(FieldList(<<Field(<<>>, Ident(<<"T", "h", "i", "n", "g">>))>>), <<"C", "l", "o", "s", "e">>,
                 NoFields, FieldList(<<Field(<<>>, tError)>>)))>>)

\* func Watch(c chan int), and func Do(n int)
FileD ==
    File(<<>>,
         <<Object(Fun, <<"W", "a", "t", "c", "h">>, FuncDecl(NilFields, <<"W", "a", "t", "c", "h">>,
                 FieldList(<<Field(<<<<"c">>>>, ChanType(tInt))>>), NilFields)),
          Object(Fun, <<"D", "o">>, FuncDecl(NilFields, <<"D", "o">>,
                 FieldList(<<Field(<<<<"n">>>>, tInt)>>), NilFields))>>)

\* a method whose receiver field has two names, func (a, b *Thing) Bad()
FileE ==
    File(<<>>,
         <<Object(Fun, <<"B", "a", "d">>, FuncDecl(FieldList(<<Field(<<<<"a">>, <<"b">>>>, StarExpr(Ident(<<"T", "h", "i", "n", "g">>)))>>),
                 <<"B", "a", "d">>, NoFields, NilFields)),
          Object(Fun, <<"Z", "a", "p">>, FuncDecl(NilFields, <<"Z", "a", "p">>, NoFields, NilFields))>>)

\* the files of the directory by name (the keys of pkg.Files)
FileNames == {"a.go", "b.go", "c.go", "d.go", "e.go"}

SourceFile(name) ==
    CASE name = "a.go" -> FileA
      [] name = "b.go" -> FileB
      [] name = "c.go" -> FileC
      [] name = "d.go" -> FileD
      [] name = "e.go" -> FileE

\* *ast.Package: the names of its Files; a directory's packages share no file
Packages == {fs \in SUBSET FileNames : fs # {} /\ Cardinality(fs) <= MaxFiles}

Modules ==
    {m \in SUBSET Packages :
        /\ Cardinality(m) <= MaxPkgs
        /\ \A p \in m, q \in m : p # q => p \cap q = {}}

\* values of flag -n
PkgNames == {<<"a", "/", "w", "i", "d", "g", "e", "t">>, <<"x", "/", "w", "i", "d", "g", "e", "t">>}

\* filepath.Base
Base(path) ==
    LET slashes == {i \in 1..Len(path) : path[i] = "/"}
    IN IF slashes = {} THEN path
       ELSE SubSeq(path, (CHOOSE i \in slashes : \A j \in slashes : j <= i) + 1, Len(path))

\* ------------------------------------------------------------------ run

NotRendered == [rendered |-> FALSE]
NoCall == [op |-> "none"]

\* the Data literal of run()
NewData(name) ==
    [InputPkg |-> Base(name), ImportPaths |-> <<name>>, Imports |-> <<>>, Funcs |-> <<>>]

Init ==
    /\ pc = "start"
    /\ pkgName \in PkgNames
    /\ data = NewData(pkgName)
    /\ module \in Modules
    /\ astFiles = module
    /\ files = {}
    /\ file = "none"
    /\ objects = {}
    /\ faulted = FALSE
    /\ rendered = NotRendered
    /\ written = FALSE
    /\ last = NoCall
    /\ calls = 0

\* data.addImport("github.com/dop251/goja"); data.addImport(*pkgName)
Seed ==
    /\ pc = "start"
    /\ data' = AddImport(AddImport(data, GojaPath), pkgName)
    /\ pc' = "loop"
    /\ UNCHANGED <<pkgName, module, astFiles, files, file, objects, faulted, rendered, written, last, calls>>

\* for _, astFile := range astFiles: the call of data.scan (map order is any order)
ScanPackage ==
    /\ pc = "loop"
    /\ \E pkg \in astFiles :
          /\ astFiles' = astFiles \ {pkg}
          /\ files' = pkg
    /\ pc' = "scan"
    /\ UNCHANGED <<pkgName, data, module, file, objects, faulted, rendered, written, last, calls>>

\* for _, file := range pkg.Files: the file's imports are folded into ImportPaths
ScanFile ==
    /\ pc = "scan"
    /\ \E name \in files :
          /\ files' = files \ {name}
          /\ file' = name
          /\ data' = FoldImports(data, SourceFile(name).Imports)
          /\ objects' = DOMAIN SourceFile(name).Objects
    /\ pc' = "objects"
    /\ UNCHANGED <<pkgName, module, astFiles, faulted, rendered, written, last, calls>>

\* for name, object := range file.Scope.Objects: one object
ScanNextObject ==
    /\ pc = "objects"
    /\ \E i \in objects :
          LET r == ScanObject(data, SourceFile(file).Objects[i], Fun)
          IN /\ objects' = objects \ {i}
             /\ data' = r.d
             /\ faulted' = (faulted \/ r.err \/ r.panic)
             /\ pc' = AfterObject(r)
    /\ UNCHANGED <<pkgName, module, astFiles, files, file, rendered, written, last, calls>>

\* the objects of the file are exhausted: next file
ScanFileDone ==
    /\ pc = "objects"
    /\ objects = {}
    /\ pc' = "scan"
    /\ UNCHANGED <<pkgName, data, module, astFiles, files, file, objects, faulted, rendered, written, last, calls>>

\* the files of the package are exhausted: scan sorts and returns nil
ScanReturn ==
    /\ pc = "scan"
    /\ files = {}
    /\ data' = ScanSort(data)
    /\ pc' = "loop"
    /\ UNCHANGED <<pkgName, module, astFiles, files, file, objects, faulted, rendered, written, last, calls>>

\* template.ParseFiles and tmpl.Execute(&buffer, data); either may fail
Render ==
    /\ pc = "loop"
    /\ astFiles = {}
    /\ \E ok \in BOOLEAN :
          IF ok
          THEN /\ rendered' = [rendered |-> TRUE, Imports |-> data.Imports, Funcs |-> data.Funcs]
               /\ pc' = "write"
          ELSE /\ rendered' = rendered
               /\ pc' = "failed"
    /\ UNCHANGED <<pkgName, data, module, astFiles, files, file, objects, faulted, written, last, calls>>

\* filepath.Abs, os.MkdirAll, os.WriteFile; the first two may fail
Write ==
    /\ pc = "write"
    /\ \E ok \in BOOLEAN :
          IF ok
          THEN /\ written' = TRUE
               /\ pc' = "done"
          ELSE /\ written' = written
               /\ pc' = "failed"
    /\ UNCHANGED <<pkgName, data, module, astFiles, files, file, objects, faulted, rendered, last, calls>>

Next ==
    \/ Seed
    \/ ScanPackage
    \/ ScanFile
    \/ ScanNextObject
    \/ ScanFileDone
    \/ ScanReturn
    \/ Render
    \/ Write

Spec == Init /\ [][Next]_vars

\* ------------------------------------------------------------------ direct calls
\* The methods of Data called one at a time on the Data that run() has
\* seeded, with import paths folded in as scan folds them.

MaxKnown == 2   \* import paths folded into ImportPaths besides *pkgName
MaxCalls == 2   \* calls of addImport, formatType, formatFuncDecl made

\* import paths the files declare
KnownPaths == {<<"e", "n", "c", "o", "d", "i", "n", "g", "/", "j", "s", "o", "n">>, <<"f", "o", "o", "/", "b", "a", "r">>, <<"b", "a", "z", "/", "b", "a", "r">>, <<"i", "n", "t", "e", "r", "n", "a", "l", "/", "x">>}

\* texts handed to addImport
Qualifiers == {<<"j", "s", "o", "n">>, <<"b", "a", "r">>, <<"*", "b", "a", "r">>, <<"x">>, <<"i", "n", "t", "e", "r", "n", "a", "l">>, <<"z", "e", "d">>}

tBarT == SelectorExpr(Ident(<<"b", "a", "r">>), <<"T">>)

TypeExprs ==
    {tInt,                                                  \* int
     Ident(<<"T", "h", "i", "n", "g">>),                                      \* Thing
     StarExpr(Ident(<<"T", "h", "i", "n", "g">>)),                            \* *Thing
     SelectorExpr(Ident(<<"j", "s", "o", "n">>), <<"D", "e", "c", "o", "d", "e", "r">>),            \* json.Decoder
     SelectorExpr(Ident(<<"J", "S", "O", "N">>), <<"D", "e", "c", "o", "d", "e", "r">>),            \* JSON.Decoder
     SelectorExpr(Ident(<<"i", "n", "t", "e", "r", "n", "a", "l">>), <<"T">>),              \* internal.T
     tBarT,                                                 \* bar.T
     StarExpr(tBarT),                                       \* *bar.T
     ArrayType(NilExpr, tBarT),                             \* []bar.T
     ArrayType(NilExpr, StarExpr(tBarT)),                   \* []*bar.T
     StarExpr(StarExpr(tBarT)),                             \* **bar.T
     ArrayType(BasicLit(<<"5">>), tBarT),                     \* [5]bar.T
     MapType(Ident(<<"s", "t", "r", "i", "n", "g">>), tBarT),                     \* map[string]bar.T
     FuncType(FieldList(<<Field(<<<<"a">>>>, tBarT)>>), NilFields),   \* func(a bar.T)
     Ellipsis(tInt),                                        \* ...int
     ChanType(tInt),                                        \* chan int
     OtherExpr}                                             \* struct{}

tFuncAB == FuncType(FieldList(<<Field(<<<<"a">>, <<"b">>>>, tInt)>>), NilFields)
tFuncIntError == FuncType(NoFields, FieldList(<<Field(<<>>, tInt), Field(<<>>, tError)>>))

FuncDecls ==
    {\* func Add(a int, b int) int
     FuncDecl(NilFields, <<"A", "d", "d">>, FieldList(<<Field(<<<<"a">>>>, tInt), Field(<<<<"b">>>>, tInt)>>),
              FieldList(<<Field(<<>>, tInt)>>)),
     \* func Sum(a, b int) int
     FuncDecl(NilFields, <<"S", "u", "m">>, FieldList(<<Field(<<<<"a">>, <<"b">>>>, tInt)>>),
              FieldList(<<Field(<<>>, tInt)>>)),
     \* func Do()
     FuncDecl(NilFields, <<"D", "o">>, NoFields, NilFields),
     \* func Div(a int) (int, error)
     FuncDecl(NilFields, <<"D", "i", "v">>, FieldList(<<Field(<<<<"a">>>>, tInt)>>),
              FieldList(<<Field(<<>>, tInt), Field(<<>>, tError)>>)),
     \* func Get() (n int, err error)
     FuncDecl(NilFields, <<"G", "e", "t">>, NoFields,
              FieldList(<<Field(<<<<"n">>>>, tInt), Field(<<<<"e", "r", "r">>>>, tError)>>)),
     \* func Op() func(a, b int)
     FuncDecl(NilFields, <<"O", "p">>, NoFields, FieldList(<<Field(<<>>, tFuncAB)>>)),
     \* func Gen() func() (int, error)
     FuncDecl(NilFields, <<"G", "e", "n">>, NoFields, FieldList(<<Field(<<>>, tFuncIntError)>>)),
     \* func (w *Widget) Close() error
     FuncDecl(FieldList(<<Field(<<<<"w">>>>, StarExpr(Ident(<<"W", "i", "d", "g", "e", "t">>)))>>), <<"C", "l", "o", "s", "e">>, NoFields,
              FieldList(<<Field(<<>>, tError)>>)),
     \* func (a, b *Widget) Bad()
     FuncDecl(FieldList(<<Field(<<<<"a">>, <<"b">>>>, StarExpr(Ident(<<"W", "i", "d", "g", "e", "t">>)))>>), <<"B", "a", "d">>, NoFields,
              NilFields),
     \* func Watch(c chan int)
     FuncDecl(NilFields, <<"W", "a", "t", "c", "h">>, FieldList(<<Field(<<<<"c">>>>, ChanType(tInt))>>), NilFields)}

InitCalls ==
    /\ pc = "unit"
    /\ pkgName \in PkgNames
    /\ data = AddImport(AddImport(NewData(pkgName), GojaPath), pkgName)
    /\ module = {}
    /\ astFiles = {}
    /\ files = {}
    /\ file = "none"
    /\ objects = {}
    /\ faulted = FALSE
    /\ rendered = NotRendered
    /\ written = FALSE
    /\ last = NoCall
    /\ calls = 0

\* scan folds one more import spec of a file into ImportPaths
CallFoldImport ==
    /\ pc = "unit"
    /\ Len(data.ImportPaths) <= MaxKnown
    /\ \E path \in KnownPaths :
          /\ ~SliceContains(data.ImportPaths, path)
          /\ data' = FoldImports(data, <<Quote(path)>>)
          /\ last' = [op |-> "fold", arg |-> path, before |-> data]
    /\ UNCHANGED <<pc, pkgName, module, astFiles, files, file, objects, faulted, rendered, written, calls>>

CallAddImport ==
    /\ pc = "unit"
    /\ calls < MaxCalls
    /\ \E imprt \in Qualifiers :
          /\ data' = AddImport(data, imprt)
          /\ last' = [op |-> "addImport", arg |-> imprt, before |-> data]
    /\ calls' = calls + 1
    /\ UNCHANGED <<pc, pkgName, module, astFiles, files, file, objects, faulted, rendered, written>>

CallFormatType ==
    /\ pc = "unit"
    /\ calls < MaxCalls
    /\ \E typ \in TypeExprs :
          LET r == FormatType(data, typ)
          IN /\ data' = r.d
             /\ last' = [op |-> "formatType", arg |-> typ, before |-> data,
                         s |-> r.s, panic |-> r.panic]
             /\ pc' = IF r.panic THEN "panicked" ELSE pc
    /\ calls' = calls + 1
    /\ UNCHANGED <<pkgName, module, astFiles, files, file, objects, faulted, rendered, written>>

CallFormatFuncDecl ==
    /\ pc = "unit"
    /\ calls < MaxCalls
    /\ \E decl \in FuncDecls :
          LET r == FormatFuncDecl(data, decl)
          IN /\ data' = r.d
             /\ last' = [op |-> "formatFuncDecl", arg |-> decl, before |-> data,
                         f |-> r.f, err |-> r.err, panic |-> r.panic]
             /\ pc' = IF r.panic THEN "panicked" ELSE pc
    /\ calls' = calls + 1
    /\ UNCHANGED <<pkgName, module, astFiles, files, file, objects, faulted, rendered, written>>

\* addImport alone, on a known-path table that grows as scan folds imports in
NextResolver ==
    \/ CallFoldImport
    \/ CallAddImport

SpecResolver == InitCalls /\ [][NextResolver]_vars

\* the formatters, which call addImport themselves
NextFormat ==
    \/ CallFoldImport
    \/ CallFormatType
    \/ CallFormatFuncDecl

SpecFormat == InitCalls /\ [][NextFormat]_vars

\* ------------------------------------------------------------------ properties

CountNamed(funcs, name) == Cardinality({i \in 1..Len(funcs) : funcs[i].Name = name})

\* the exported function declarations (no receiver) of a module, as (file, index)
FunctionDecls(m) ==
    {x \in UNION {{<<f, i>> : i \in DOMAIN SourceFile(f).Objects} : f \in UNION m} :
        /\ SourceFile(x[1]).Objects[x[2]].Kind = Fun
        /\ IsExported(SourceFile(x[1]).Objects[x[2]].Name)
        /\ SourceFile(x[1]).Objects[x[2]].Decl.Recv.isNil}

\* names that two or more exported function declarations of the module share
DuplicatedNames(m) ==
    {SourceFile(x[1]).Objects[x[2]].Name : x \in
        {x \in FunctionDecls(m) : \E y \in FunctionDecls(m) :
            y # x /\ SourceFile(y[1]).Objects[y[2]].Name = SourceFile(x[1]).Objects[x[2]].Name}}

\* C1: Data.Funcs never holds two entries with the same Name, and the model
\* handed to the renderer holds exactly one Declaration for every name that
\* two or more exported function declarations of the module share.
C1_DedupUniqueness ==
    /\ \A i, j \in 1..Len(data.Funcs) : i # j => data.Funcs[i].Name # data.Funcs[j].Name
    /\ rendered.rendered =>
          \A name \in DuplicatedNames(module) : CountNamed(rendered.Funcs, name) = 1

C1_Witness ==
    /\ rendered.rendered
    /\ DuplicatedNames(module) # {}
    /\ \A name \in DuplicatedNames(module) : CountNamed(rendered.Funcs, name) = 1

FirstSegment(path) ==
    LET p == Index(path, <<"/">>) IN IF p = -1 THEN path ELSE SubSeq(path, 1, p)

\* C2: no entry of Data.Imports has `internal` as its first path segment,
\* the bare path `internal` included.
C2_InternalExclusion ==
    \A i \in 1..Len(data.Imports) : FirstSegment(data.Imports[i]) # <<"i", "n", "t", "e", "r", "n", "a", "l">>

\* the qualifier addImport looks up: the argument less one leading "*" and one leading "[]"
Stripped(imprt) == TrimPrefix(TrimPrefix(imprt, <<"*">>), <<"[", "]">>)

\* positions of the known paths that end in "/"+q
SuffixHits(known, q) == {i \in 1..Len(known) : HasSuffix(known[i], <<"/">> \o q)}

FirstHit(known, q) == known[CHOOSE i \in SuffixHits(known, q) : \A j \in SuffixHits(known, q) : i <= j]

\* C3 as stated: after addImport(q), every known path ending in "/"+q is in
\* Data.Imports, and Data.Imports has not gained the bare entry q.
C3_EveryKnownPathRegistered ==
    last.op = "addImport" =>
        /\ \A i \in SuffixHits(last.before.ImportPaths, last.arg) :
              SliceContains(data.Imports, last.before.ImportPaths[i])
        /\ SuffixHits(last.before.ImportPaths, last.arg) # {}
              /\ ~SliceContains(last.before.Imports, last.arg)
              => ~SliceContains(data.Imports, last.arg)

\* C3 (amended): when some known path ends in "/"+q at the time q is
\* registered, Data.Imports gains no bare entry q and afterwards contains the
\* first such path of the table, unless that path begins with "internal/".
C3_SuffixResolution ==
    last.op = "addImport" /\ SuffixHits(last.before.ImportPaths, Stripped(last.arg)) # {} =>
        /\ ~HasPrefix(FirstHit(last.before.ImportPaths, Stripped(last.arg)), InternalPrefix)
              => SliceContains(data.Imports, FirstHit(last.before.ImportPaths, Stripped(last.arg)))
        /\ ~SliceContains(last.before.Imports, Stripped(last.arg))
              => ~SliceContains(data.Imports, Stripped(last.arg))
        /\ Len(data.Imports) <= Len(last.before.Imports) + 1

C3_Witness ==
    /\ last.op = "addImport"
    /\ SuffixHits(last.before.ImportPaths, Stripped(last.arg)) # {}
    /\ ~SliceContains(last.before.Imports, FirstHit(last.before.ImportPaths, Stripped(last.arg)))
    /\ SliceContains(data.Imports, FirstHit(last.before.ImportPaths, Stripped(last.arg)))

\* C4: rendering and writing happen only in a run whose scan met no fault
\* and ranged over every package, file and object; a fault ends the run.
C4_AllOrNothing ==
    /\ (rendered.rendered \/ written \/ pc \in {"write", "done"}) =>
          ~faulted /\ astFiles = {} /\ files = {} /\ objects = {}
    /\ faulted => pc \in {"failed", "panicked"}

C4_Witness == faulted /\ pc \in {"failed", "panicked"} /\ ~rendered.rendered /\ ~written

\* C5: formatType renders an unqualified exported identifier as M.Identifier,
\* an unexported identifier unchanged, and q.Identifier unchanged for every
\* qualifier name q.
C5_SelfQualification ==
    last.op = "formatType" /\ ~last.panic =>
        /\ last.arg.kind = "Ident" =>
              last.s = IF IsExported(last.arg.Name)
                       THEN last.before.InputPkg \o <<".">> \o last.arg.Name
                       ELSE last.arg.Name
        /\ last.arg.kind = "SelectorExpr" /\ last.arg.X.kind = "Ident" =>
              last.s = last.arg.X.Name \o <<".">> \o last.arg.Sel

\* the parameter names of a field list in declaration order
RECURSIVE NamesOf(_)
NamesOf(list) == IF list = <<>> THEN <<>> ELSE Head(list).Names \o NamesOf(Tail(list))

\* names joined by ", "
RECURSIVE JoinNames(_)
JoinNames(names) ==
    IF names = <<>> THEN <<>>
    ELSE IF Len(names) = 1 THEN names[1]
    ELSE names[1] \o <<",", " ">> \o JoinNames(Tail(names))

\* C6: ParamNames is "(" + the parameter names in declaration order joined
\* by ", " + ")", however the names are grouped into fields.
C6_ParamNames ==
    last.op = "formatFuncDecl" /\ ~last.err /\ ~last.panic /\ last.f.Name # <<>> =>
        last.f.ParamNames = <<"(">> \o JoinNames(NamesOf(last.arg.Type.Params.List)) \o <<")">>

SortedStrings(list) == \A i \in 1..(Len(list) - 1) : ~Less(list[i + 1], list[i])

SortedByName(funcs) == \A i \in 1..(Len(funcs) - 1) : ~Less(funcs[i + 1].Name, funcs[i].Name)

\* C7: the model handed to the template has its imports in ascending order
\* and its declarations in ascending order of Name, for any number of packages.
C7_SortedFinalModel ==
    rendered.rendered => SortedStrings(rendered.Imports) /\ SortedByName(rendered.Funcs)

\* one fixed scan order: objects in source order, files and packages as chosen
RECURSIVE RefObjects(_, _, _)
RefObjects(d, objs, i) ==
    IF i > Len(objs) THEN d ELSE RefObjects(ScanObject(d, objs[i], Fun).d, objs, i + 1)

RECURSIVE RefFiles(_, _)
RefFiles(d, fs) ==
    IF fs = {} THEN ScanSort(d)
    ELSE LET f == CHOOSE f \in fs : TRUE
         IN RefFiles(RefObjects(FoldImports(d, SourceFile(f).Imports), SourceFile(f).Objects, 1), fs \ {f})

RECURSIVE RefPackages(_, _)
RefPackages(d, ps) ==
    IF ps = {} THEN d
    ELSE LET p == CHOOSE p \in ps : TRUE IN RefPackages(RefFiles(d, p), ps \ {p})

RefImports(name, m) == RefPackages(AddImport(AddImport(NewData(name), GojaPath), name), m).Imports

\* C8: the final imports of a module are the same whatever the order in
\* which its packages, files and objects are scanned.
C8_OrderIndependence ==
    rendered.rendered => rendered.Imports = RefImports(pkgName, module)

TypeSyntax == {"*", "[", "]", "(", ")", " ", ","}

\* C9: every entry of Data.Imports is a plain import path or identifier: it
\* holds no type syntax.
C9_PlainImports ==
    \A i \in 1..Len(data.Imports) :
        /\ \A k \in 1..Len(data.Imports[i]) : data.Imports[i][k] \notin TypeSyntax
        /\ ~HasPrefix(data.Imports[i], <<"m", "a", "p", "[">>)
        /\ ~HasPrefix(data.Imports[i], <<"f", "u", "n", "c", "(">>)

\* number of "(" less number of ")" in s
RECURSIVE Depth(_)
Depth(s) ==
    IF s = <<>> THEN 0
    ELSE Depth(SubSeq(s, 1, Len(s) - 1))
         + (IF s[Len(s)] = "(" THEN 1 ELSE IF s[Len(s)] = ")" THEN -1 ELSE 0)

Balanced(s) == Depth(s) = 0 /\ \A k \in 1..Len(s) : Depth(SubSeq(s, 1, k)) >= 0

\* C10: the Results text of a declaration has balanced parentheses.
C10_BalancedResults ==
    last.op = "formatFuncDecl" /\ ~last.err /\ ~last.panic => Balanced(last.f.Results)

====
